---- MODULE Spec2Model ----
(***************************************************************************)
(* Focus-coaching application: alarm sequencer (utils/beep.ts), camera     *)
(* monitor (components/FocusDetection.tsx and its posture-only variant),   *)
(* screen monitors (ScreenActivityDetector, ScreenMonitor) and the session *)
(* timer of the FocusMode page.                                            *)
(***************************************************************************)
EXTENDS Integers, Sequences, FiniteSets, TLC

\* ------------------------------------------------------------------ bounds
MaxCycles == 2          \* live alarm cycles per channel explored by the API driver
MaxTicks == 17          \* classification ticks recorded per camera monitor
MaxEndCalls == 3        \* handleSessionEnd calls explored per session
MaxStarts == 1          \* manual startScreenShare calls in flight
MaxStreams == 2         \* captured streams alive, polling intervals alive
MaxInflight == 1        \* performOCRAndClassify calls in flight
MaxGamingCount == 1     \* cap of gamingDetectedCount
MaxCleanups == 1        \* cleanup calls awaiting terminate()
MaxSecondsLeft == 4      \* seconds left of the session when SpecSession starts
MaxMessages == 6        \* messages of a conversation

\* ------------------------------------------------------- program constants
DistractionThreshold == 15
RecoveryThreshold == 2
Null == 0
SecondsPerMinute == 60
MinTextLength == 20

VARIABLES
  beep,           \* module state of utils/beep.ts plus its pending tones and timers
  variant,        \* which FocusDetection source is mounted: "opencv" or "posture"
  mounted,        \* the FocusDetection component is mounted (its DOM refs are set)
  camPc,          \* position of the detect loop
  distractedTimeRef,
  focusedTimeRef,
  alarmActive,
  history,        \* labels ("D" or "F") of the ticks processed while mounted
  startCalls,     \* calls of startContinuousAlarm made by detect
  stopCalls,      \* calls of stopContinuousAlarm made by detect
  notifyCalls,    \* calls of onDistractedTooLong
  lastFrame,      \* signals of the last frame detect decided (kept under SpecTicks)
  page,           \* state of the FocusMode page: session timer, dialogs, pending saves
  screen,         \* state of one ScreenActivityDetector and of what it has in flight
  chat,           \* state of one chat component and of its requests in flight
  sel             \* state of the TimeSelection page and of its screen request

camData == <<distractedTimeRef, focusedTimeRef, alarmActive, history,
             startCalls, stopCalls, notifyCalls, lastFrame>>
camVars == <<variant, mounted, camPc, camData>>
vars == <<beep, camVars, page, screen, chat, sel>>
notBeep == <<camVars, page, screen, chat, sel>>
notCam == <<page, screen, chat, sel>>
notPage == <<beep, camVars, screen, chat, sel>>
notScreen == <<camVars, page, chat, sel>>
notChat == <<beep, camVars, page, screen, sel>>
notSel == <<beep, camVars, page, screen, chat>>

\* Phases of one playGamingCycle invocation: the five awaits of a burst.
GamingPhases == 1..5
BeepPhases == {1, 3, 5}

\* ---------------------------------------------------------------- beep.ts
BeepInit ==
  [ audioContext |-> FALSE,
    alarmIntervalId |-> Null,
    isAlarmRunning |-> FALSE,
    gamingAlarmIntervalId |-> Null,
    isGamingAlarmRunning |-> FALSE,
    alarmBeeps |-> 0,                       \* playAlarmCycle invocations awaiting playBeep
    alarmTimers |-> {},                     \* pending setTimeout(playAlarmCycle) ids
    gamingCycles |-> [p \in GamingPhases |-> 0], \* playGamingCycle invocations per await
    gamingTimers |-> {} ]                   \* pending setTimeout(playGamingCycle) ids

Min(S) == CHOOSE x \in S : \A y \in S : x <= y

\* window.setTimeout returns an id no pending timer and no stored token uses.
NewTimerId(s) ==
  LET used == s.alarmTimers \cup s.gamingTimers
                \cup {s.alarmIntervalId, s.gamingAlarmIntervalId, Null}
  IN  Min((1..(Cardinality(used) + 1)) \ used)

\* playBeep can only be rejected while the audio context has to be created.
PlayBeepOutcomes(s) == IF s.audioContext THEN {TRUE} ELSE {TRUE, FALSE}

\* playBeep up to its first suspension: ok = the oscillator was started.
playBeep(s, ok) == IF ok THEN [s EXCEPT !.audioContext = TRUE] ELSE s

\* stopContinuousAlarm that clears the timeout but keeps the stale token.
stopContinuousAlarmKeepsToken(s) ==
  [s EXCEPT !.isAlarmRunning = FALSE,
            !.alarmTimers = IF s.alarmIntervalId # Null
                              THEN @ \ {s.alarmIntervalId} ELSE @]

stopContinuousAlarm(s) ==
  [s EXCEPT !.isAlarmRunning = FALSE,
            !.alarmTimers = IF s.alarmIntervalId # Null
                              THEN @ \ {s.alarmIntervalId} ELSE @,
            !.alarmIntervalId = Null]

\* playAlarmCycle from its entry to the await of playBeep.
playAlarmCycle(s, ok) ==
  IF ~s.isAlarmRunning THEN s
  ELSE IF ok THEN [playBeep(s, ok) EXCEPT !.alarmBeeps = @ + 1]
  ELSE s

\* startContinuousAlarm without its guard on the running flag.
startContinuousAlarmStacks(s, ok) ==
  playAlarmCycle([stopContinuousAlarm(s) EXCEPT !.isAlarmRunning = TRUE], ok)

startContinuousAlarm(s, ok) ==
  IF s.isAlarmRunning THEN s
  ELSE playAlarmCycle([stopContinuousAlarm(s) EXCEPT !.isAlarmRunning = TRUE], ok)

\* playAlarmCycle after the awaited tone has ended.
alarmBeepEnded(s) ==
  LET t == [s EXCEPT !.alarmBeeps = @ - 1]
  IN  IF t.isAlarmRunning
        THEN [t EXCEPT !.alarmIntervalId = NewTimerId(s),
                       !.alarmTimers = @ \cup {NewTimerId(s)}]
        ELSE t

isAlarmPlaying(s) == s.isAlarmRunning

\* stopGamingAlarm that keeps its timer in the continuous channel's token.
stopGamingAlarmSharedToken(s) ==
  [s EXCEPT !.isGamingAlarmRunning = FALSE,
            !.gamingTimers = IF s.gamingAlarmIntervalId # Null
                               THEN @ \ {s.gamingAlarmIntervalId} ELSE @,
            !.gamingAlarmIntervalId = Null,
            !.alarmTimers = IF s.alarmIntervalId # Null
                              THEN @ \ {s.alarmIntervalId} ELSE @,
            !.alarmIntervalId = Null]

stopGamingAlarm(s) ==
  [s EXCEPT !.isGamingAlarmRunning = FALSE,
            !.gamingTimers = IF s.gamingAlarmIntervalId # Null
                               THEN @ \ {s.gamingAlarmIntervalId} ELSE @,
            !.gamingAlarmIntervalId = Null]

\* playGamingCycle from its entry to the await of the first playBeep.
playGamingCycle(s, ok) ==
  IF ~s.isGamingAlarmRunning THEN s
  ELSE IF ok THEN [playBeep(s, ok) EXCEPT !.gamingCycles[1] = @ + 1]
  ELSE s

startGamingAlarm(s, ok) ==
  IF s.isGamingAlarmRunning THEN s
  ELSE playGamingCycle([stopGamingAlarm(s) EXCEPT !.isGamingAlarmRunning = TRUE], ok)

\* playGamingCycle resumed after the await it was suspended at (phase p).
gamingCycleResumed(s, p, ok) ==
  LET t == [s EXCEPT !.gamingCycles[p] = @ - 1]
  IN  CASE p \in {1, 3} -> [t EXCEPT !.gamingCycles[p + 1] = @ + 1]
        [] p \in {2, 4} -> IF ok THEN [playBeep(t, ok) EXCEPT !.gamingCycles[p + 1] = @ + 1]
                                 ELSE t
        [] OTHER -> IF t.isGamingAlarmRunning
                      THEN [t EXCEPT !.gamingAlarmIntervalId = NewTimerId(s),
                                     !.gamingTimers = @ \cup {NewTimerId(s)}]
                      ELSE t

isGamingAlarmActive(s) == s.isGamingAlarmRunning

\* Tones sounding and cycles alive on each channel.
RECURSIVE SumPhases(_, _)
SumPhases(f, P) ==
  IF P = {} THEN 0 ELSE LET p == Min(P) IN f[p] + SumPhases(f, P \ {p})

AlarmTones(s) == s.alarmBeeps
GamingTones(s) == SumPhases(s.gamingCycles, BeepPhases)
AlarmLive(s) == s.alarmBeeps + Cardinality(s.alarmTimers)
GamingLive(s) == SumPhases(s.gamingCycles, GamingPhases) + Cardinality(s.gamingTimers)

\* ------------------------------------------------ alarm channels, driven
\* by an arbitrary caller of the exported functions
ApiStartContinuous ==
  /\ AlarmLive(beep) < MaxCycles
  /\ \E ok \in PlayBeepOutcomes(beep) : beep' = startContinuousAlarm(beep, ok)
  /\ UNCHANGED notBeep

ApiStopContinuous ==
  /\ beep' = stopContinuousAlarm(beep)
  /\ UNCHANGED notBeep

ApiStartGaming ==
  /\ GamingLive(beep) < MaxCycles
  /\ \E ok \in PlayBeepOutcomes(beep) : beep' = startGamingAlarm(beep, ok)
  /\ UNCHANGED notBeep

ApiStopGaming ==
  /\ beep' = stopGamingAlarm(beep)
  /\ UNCHANGED notBeep

AlarmBeepEnds ==
  /\ beep.alarmBeeps > 0
  /\ beep' = alarmBeepEnded(beep)
  /\ UNCHANGED notBeep

AlarmTimerFires ==
  /\ \E id \in beep.alarmTimers, ok \in PlayBeepOutcomes(beep) :
       beep' = playAlarmCycle([beep EXCEPT !.alarmTimers = @ \ {id}], ok)
  /\ UNCHANGED notBeep

GamingCycleResumes ==
  /\ \E p \in GamingPhases, ok \in PlayBeepOutcomes(beep) :
       /\ beep.gamingCycles[p] > 0
       /\ beep' = gamingCycleResumed(beep, p, ok)
  /\ UNCHANGED notBeep

GamingTimerFires ==
  /\ \E id \in beep.gamingTimers, ok \in PlayBeepOutcomes(beep) :
       beep' = playGamingCycle([beep EXCEPT !.gamingTimers = @ \ {id}], ok)
  /\ UNCHANGED notBeep


\* ------------------------------------------------------- FocusDetection
\* Class names as lower/upper-case letter sequences.
Focused == <<"F", "o", "c", "u", "s", "e", "d">>
Distracted == <<"D", "i", "s", "t", "r", "a", "c", "t", "e", "d">>
Unfocused == <<"U", "n", "f", "o", "c", "u", "s", "e", "d">>
Confused == <<"C", "o", "n", "f", "u", "s", "e", "d">>
ClassNames == {Focused, Distracted, Unfocused, Confused}

toLowerCase(str) ==
  [i \in 1..Len(str) |->
     CASE str[i] = "F" -> "f" [] str[i] = "D" -> "d"
       [] str[i] = "U" -> "u" [] str[i] = "C" -> "c" [] OTHER -> str[i]]

includes(str, sub) ==
  \E i \in 0..(Len(str) - Len(sub)) : SubSeq(str, i + 1, i + Len(sub)) = sub

\* topPrediction.className.toLowerCase().includes("focused")
isTmFocused(className) ==
  includes(toLowerCase(className), <<"f", "o", "c", "u", "s", "e", "d">>)

\* areEyesVisible: a face was found and at least one eye inside it.
areEyesVisible(faces, eyes) == faces > 0 /\ eyes >= 1

\* The combined focus decision of one tick.
isFocused(v, className, faces, eyes) ==
  IF v = "opencv" THEN isTmFocused(className) /\ areEyesVisible(faces, eyes)
  ELSE isTmFocused(className)

\* detectLogic with the recovery confirmation dropped: the first focused tick
\* stops the alarm.
detectLogicEagerStop(cam, focused, ok) ==
  IF ~focused
    THEN LET d == cam.distractedTimeRef + 1
             fire == d >= DistractionThreshold /\ ~isAlarmPlaying(cam.beep)
         IN  [cam EXCEPT !.distractedTimeRef = d,
                         !.focusedTimeRef = 0,
                         !.beep = IF fire THEN startContinuousAlarm(@, ok) ELSE @,
                         !.alarmActive = IF fire THEN TRUE ELSE @,
                         !.startCalls = IF fire THEN @ + 1 ELSE @,
                         !.notifyCalls = IF fire THEN @ + 1 ELSE @]
    ELSE LET f == cam.focusedTimeRef + 1
             clear == isAlarmPlaying(cam.beep)
         IN  [cam EXCEPT !.distractedTimeRef = 0,
                         !.focusedTimeRef = f,
                         !.beep = IF clear THEN stopContinuousAlarm(@) ELSE @,
                         !.alarmActive = IF clear THEN FALSE ELSE @,
                         !.stopCalls = IF clear THEN @ + 1 ELSE @]

\* detectLogic without the reset of the opposite counter.
detectLogicNoReset(cam, focused, ok) ==
  IF ~focused
    THEN LET d == cam.distractedTimeRef + 1
             fire == d >= DistractionThreshold /\ ~isAlarmPlaying(cam.beep)
         IN  [cam EXCEPT !.distractedTimeRef = d,
                         !.beep = IF fire THEN startContinuousAlarm(@, ok) ELSE @,
                         !.alarmActive = IF fire THEN TRUE ELSE @,
                         !.startCalls = IF fire THEN @ + 1 ELSE @,
                         !.notifyCalls = IF fire THEN @ + 1 ELSE @]
    ELSE LET f == cam.focusedTimeRef + 1
             clear == f >= RecoveryThreshold /\ isAlarmPlaying(cam.beep)
         IN  [cam EXCEPT !.focusedTimeRef = f,
                         !.beep = IF clear THEN stopContinuousAlarm(@) ELSE @,
                         !.alarmActive = IF clear THEN FALSE ELSE @,
                         !.stopCalls = IF clear THEN @ + 1 ELSE @]

\* detectLogic with the threshold compared by > instead of >=: the alarm
\* starts one tick late.
detectLogicLateStart(cam, focused, ok) ==
  IF ~focused
    THEN LET d == cam.distractedTimeRef + 1
             fire == d > DistractionThreshold /\ ~isAlarmPlaying(cam.beep)
         IN  [cam EXCEPT !.distractedTimeRef = d,
                         !.focusedTimeRef = 0,
                         !.beep = IF fire THEN startContinuousAlarm(@, ok) ELSE @,
                         !.alarmActive = IF fire THEN TRUE ELSE @,
                         !.startCalls = IF fire THEN @ + 1 ELSE @,
                         !.notifyCalls = IF fire THEN @ + 1 ELSE @]
    ELSE LET f == cam.focusedTimeRef + 1
             clear == f >= RecoveryThreshold /\ isAlarmPlaying(cam.beep)
         IN  [cam EXCEPT !.distractedTimeRef = 0,
                         !.focusedTimeRef = f,
                         !.beep = IF clear THEN stopContinuousAlarm(@) ELSE @,
                         !.alarmActive = IF clear THEN FALSE ELSE @,
                         !.stopCalls = IF clear THEN @ + 1 ELSE @]

\* The alarm and distraction logic of detect for one decided tick; cam is the
\* record of the refs and calls it touches.
detectLogic(cam, focused, ok) ==
  IF ~focused
    THEN LET d == cam.distractedTimeRef + 1
             fire == d >= DistractionThreshold /\ ~isAlarmPlaying(cam.beep)
         IN  [cam EXCEPT !.distractedTimeRef = d,
                         !.focusedTimeRef = 0,
                         !.beep = IF fire THEN startContinuousAlarm(@, ok) ELSE @,
                         !.alarmActive = IF fire THEN TRUE ELSE @,
                         !.startCalls = IF fire THEN @ + 1 ELSE @,
                         !.notifyCalls = IF fire THEN @ + 1 ELSE @]
    ELSE LET f == cam.focusedTimeRef + 1
             clear == f >= RecoveryThreshold /\ isAlarmPlaying(cam.beep)
         IN  [cam EXCEPT !.distractedTimeRef = 0,
                         !.focusedTimeRef = f,
                         !.beep = IF clear THEN stopContinuousAlarm(@) ELSE @,
                         !.alarmActive = IF clear THEN FALSE ELSE @,
                         !.stopCalls = IF clear THEN @ + 1 ELSE @]

CamRecord ==
  [ beep |-> beep, distractedTimeRef |-> distractedTimeRef,
    focusedTimeRef |-> focusedTimeRef, alarmActive |-> alarmActive,
    startCalls |-> startCalls, stopCalls |-> stopCalls, notifyCalls |-> notifyCalls ]

SetCam(cam) ==
  /\ beep' = cam.beep
  /\ distractedTimeRef' = cam.distractedTimeRef
  /\ focusedTimeRef' = cam.focusedTimeRef
  /\ alarmActive' = cam.alarmActive
  /\ startCalls' = cam.startCalls
  /\ stopCalls' = cam.stopCalls
  /\ notifyCalls' = cam.notifyCalls

\* No frame decided yet.
NoFrame == [className |-> <<>>, faces |-> 0, eyes |-> 0]

\* loadModels has finished and startDetection calls detect for the first time.
StartDetection ==
  /\ camPc = "loading"
  /\ camPc' = IF mounted THEN "predicting" ELSE "stopped"
  /\ UNCHANGED <<beep, variant, mounted, camData, notCam>>

\* Camera access is refused or a model fails to load: status "error".
LoadFails ==
  /\ camPc = "loading"
  /\ camPc' = "error"
  /\ UNCHANGED <<beep, variant, mounted, camData, notCam>>

\* The decisions a frame can lead to, over every top class name and every
\* face/eye count the cascades can report.
Variants == {"opencv", "posture"}
FrameDecisions ==
  [v \in Variants |->
     {isFocused(v, className, faces, eyes) :
        className \in ClassNames, faces \in 0..1, eyes \in 0..1}]

\* detect resumes after predict with a decided frame.
DetectDecides ==
  /\ camPc = "predicting"
  /\ variant = "opencv" => mounted
  /\ Len(history) < MaxTicks
  /\ \E focused \in FrameDecisions[variant] :
       \E ok \in IF focused THEN {TRUE} ELSE PlayBeepOutcomes(beep) :
         /\ SetCam(detectLogic(CamRecord, focused, ok))
         /\ history' = IF mounted
                          THEN Append(history, IF focused THEN "F" ELSE "D")
                          ELSE history
  /\ camPc' = "sleeping"
  /\ UNCHANGED <<variant, mounted, lastFrame, notCam>>

\* detect resumes after predict and decides the frame from the top class name
\* and the face and eye counts, which lastFrame keeps.
DetectFrame ==
  /\ camPc = "predicting"
  /\ variant = "opencv" => mounted
  /\ distractedTimeRef < MaxTicks /\ focusedTimeRef < MaxTicks
  /\ isAlarmPlaying(beep) \/ (AlarmLive(beep) < MaxCycles /\ startCalls < MaxCycles)
  /\ \E className \in ClassNames, faces \in 0..1, eyes \in 0..1 :
       LET focused == isFocused(variant, className, faces, eyes)
       IN  \E ok \in IF focused THEN {TRUE} ELSE PlayBeepOutcomes(beep) :
             /\ SetCam(detectLogic(CamRecord, focused, ok))
             /\ lastFrame' = [className |-> className, faces |-> faces,
                              eyes |-> eyes]
  /\ camPc' = "sleeping"
  /\ UNCHANGED <<variant, mounted, history, notCam>>

\* canvas.getContext('2d') gave no context: the frame is skipped, the loop goes on.
DetectSkips ==
  /\ camPc = "predicting"
  /\ variant = "opencv" /\ mounted
  /\ camPc' = "sleeping"
  /\ UNCHANGED <<beep, variant, mounted, camData, notCam>>

\* DetectThrows with a catch block that restarts the hysteresis: both
\* counters are zeroed.
DetectThrowsResets ==
  /\ camPc = "predicting"
  /\ camPc' = "stopped"
  /\ distractedTimeRef' = 0
  /\ focusedTimeRef' = 0
  /\ UNCHANGED <<beep, variant, mounted, alarmActive, history, startCalls,
                 stopCalls, notifyCalls, lastFrame, notCam>>

\* predict or the frame processing throws (always so in the opencv source once
\* the canvas ref is gone): the catch block logs and schedules nothing.
DetectThrows ==
  /\ camPc = "predicting"
  /\ camPc' = "stopped"
  /\ UNCHANGED <<beep, variant, mounted, camData, notCam>>

\* The 1000 ms timeout fires and requests an animation frame.
SleepEnds ==
  /\ camPc = "sleeping"
  /\ camPc' = "frame"
  /\ UNCHANGED <<beep, variant, mounted, camData, notCam>>

\* The animation frame calls detect.
FrameRuns ==
  /\ camPc = "frame"
  /\ camPc' = IF mounted THEN "predicting" ELSE "stopped"
  /\ UNCHANGED <<beep, variant, mounted, camData, notCam>>

\* The effect cleanup of FocusDetection on unmount.
Unmount ==
  /\ mounted
  /\ mounted' = FALSE
  /\ camPc' = IF camPc = "frame" THEN "stopped" ELSE camPc
  /\ beep' = stopContinuousAlarm(beep)
  /\ history' = <<>>
  /\ UNCHANGED <<variant, distractedTimeRef, focusedTimeRef, alarmActive,
                 startCalls, stopCalls, notifyCalls, lastFrame, notCam>>



\* ------------------------------------------------- pages/FocusMode.tsx
\* duration query parameter values (minutes) the page is opened with.
DurationChoices == {-1, 0, 1}

\* The two FocusMode pages of the repository: pages/FocusMode.tsx ("pages")
\* and the page that follows the alarm module in utils/beep.ts ("embedded");
\* the embedded page saves nothing, so it behaves as a page without a user id.
PageFiles == {"pages", "embedded"}

PageInit(file, userId, durationMinutes) ==
  [ file |-> file,
    userId |-> userId,
    durationMinutes |-> durationMinutes,
    timeRemaining |-> durationMinutes * SecondsPerMinute,
    isPaused |-> FALSE,
    showCompletionDialog |-> FALSE,
    showQuiz |-> FALSE,
    interval |-> FALSE,                          \* the effect's setInterval is active
    saves |-> [c \in BOOLEAN |-> 0],             \* pending addDoc calls per completed flag
    quizTimers |-> 0,                            \* pending setTimeout callbacks
    records |-> [c \in BOOLEAN |-> 0],           \* focus_sessions documents written
    endCalls |-> [c \in BOOLEAN |-> 0] ]         \* handleSessionEnd(c) invocations

\* handleSessionEnd up to its first await (or to its return without a user
\* id); handleSessionComplete of the embedded page is its completed case.
handleSessionEnd(s, completed) ==
  LET t == [s EXCEPT !.endCalls[completed] = @ + 1]
  IN  IF ~t.userId
        THEN [t EXCEPT !.showCompletionDialog = completed,
                       !.quizTimers = @ + 1]
        ELSE [t EXCEPT !.saves[completed] = @ + 1]

\* timerEffect whose early return does not test isPaused: the interval keeps
\* running during a pause.
timerEffectIgnoresPause(s) ==
  IF s.timeRemaining <= 0 \/ s.showQuiz
    THEN LET t == [s EXCEPT !.interval = FALSE]
         IN  IF t.timeRemaining <= 0 /\ ~t.showCompletionDialog /\ ~t.showQuiz
               THEN handleSessionEnd(t, TRUE)
               ELSE t
    ELSE [s EXCEPT !.interval = TRUE]

\* The countdown effect: cleanup of the previous run, then the body.
timerEffect(s) ==
  IF s.isPaused \/ s.timeRemaining <= 0 \/ s.showQuiz
    THEN LET t == [s EXCEPT !.interval = FALSE]
         IN  IF t.timeRemaining <= 0 /\ ~t.showCompletionDialog /\ ~t.showQuiz
               THEN handleSessionEnd(t, TRUE)
               ELSE t
    ELSE [s EXCEPT !.interval = TRUE]

\* A render after which the effect runs only if one of its dependencies changed.
rerender(old, new) ==
  IF <<old.isPaused, old.timeRemaining, old.showCompletionDialog, old.showQuiz>>
       # <<new.isPaused, new.timeRemaining, new.showCompletionDialog, new.showQuiz>>
    THEN timerEffect(new)
    ELSE new

\* The interval callback: setTimeRemaining(prev => prev > 0 ? prev - 1 : 0).
TimerTick ==
  /\ page.interval
  /\ page' = rerender(page, [page EXCEPT !.timeRemaining = IF @ > 0 THEN @ - 1 ELSE 0])
  /\ UNCHANGED notPage

\* TogglePause that also silences the camera monitor: the alarm is stopped
\* and the counters are zeroed.
TogglePauseStopsMonitor ==
  /\ ~page.showQuiz /\ ~page.showCompletionDialog
  /\ page.endCalls[TRUE] < MaxEndCalls
  /\ page' = rerender(page, [page EXCEPT !.isPaused = ~@])
  /\ beep' = stopContinuousAlarm(beep)
  /\ distractedTimeRef' = 0
  /\ focusedTimeRef' = 0
  /\ alarmActive' = FALSE
  /\ UNCHANGED <<variant, mounted, camPc, history, startCalls, stopCalls,
                 notifyCalls, lastFrame, screen, chat, sel>>

\* The Pause/Resume button (not reachable under the modal completion dialog).
TogglePause ==
  /\ ~page.showQuiz /\ ~page.showCompletionDialog
  /\ page.endCalls[TRUE] < MaxEndCalls
  /\ page' = rerender(page, [page EXCEPT !.isPaused = ~@])
  /\ UNCHANGED notPage

\* handleExitEarly of pages/FocusMode.tsx and handleExit of the embedded page,
\* confirmed.
handleExitEarly(s) ==
  IF s.file = "pages"
    THEN handleSessionEnd(s, FALSE)
    ELSE [s EXCEPT !.showQuiz = TRUE]

\* The Exit button, confirmed (not reachable under the modal completion
\* dialog).
ExitEarly ==
  /\ ~page.showQuiz /\ ~page.showCompletionDialog
  /\ page.endCalls[FALSE] < MaxEndCalls
  /\ page' = rerender(page, handleExitEarly(page))
  /\ UNCHANGED notPage

\* The completion dialog is closed by the user: onOpenChange(false) of the
\* embedded page (the dialog of pages/FocusMode.tsx has no onOpenChange).
DismissDialog ==
  /\ page.file = "embedded"
  /\ ~page.showQuiz /\ page.showCompletionDialog
  /\ page.endCalls[TRUE] < MaxEndCalls
  /\ page' = rerender(page, [page EXCEPT !.showCompletionDialog = FALSE])
  /\ UNCHANGED notPage

\* addDoc settles (ok: the document was written) and handleSessionEnd resumes.
SaveSettles ==
  /\ \E completed \in BOOLEAN, ok \in BOOLEAN :
       /\ page.saves[completed] > 0
       /\ LET t == [page EXCEPT !.saves[completed] = @ - 1,
                                !.records[completed] = IF ok THEN @ + 1 ELSE @]
          IN  page' = rerender(page,
                 IF completed
                   THEN [t EXCEPT !.showCompletionDialog = TRUE, !.quizTimers = @ + 1]
                   ELSE [t EXCEPT !.showQuiz = TRUE])
  /\ UNCHANGED notPage

\* A pending timeout of handleSessionEnd fires: close the dialog, show the quiz.
QuizTimerFires ==
  /\ page.quizTimers > 0
  /\ page' = rerender(page, [page EXCEPT !.quizTimers = @ - 1,
                                         !.showCompletionDialog = FALSE,
                                         !.showQuiz = TRUE])
  /\ UNCHANGED notPage

\* ------------------------------------------- TextActivityClassifier
\* The keyword alternatives of the six regular expressions of fallbackPredict.
StudyKeywords ==
  { <<"c", "h", "a", "p", "t", "e", "r">>,
    <<"l", "e", "s", "s", "o", "n">>,
    <<"s", "t", "u", "d", "y">>,
    <<"h", "o", "m", "e", "w", "o", "r", "k">>,
    <<"e", "x", "a", "m">>,
    <<"n", "o", "t", "e", "s">>,
    <<"n", "c", "e", "r", "t">>,
    <<"c", "l", "a", "s", "s">> }
SubjectKeywords ==
  { <<"m", "a", "t", "h", "e", "m", "a", "t", "i", "c", "s">>,
    <<"s", "c", "i", "e", "n", "c", "e">>,
    <<"b", "i", "o", "l", "o", "g", "y">>,
    <<"c", "h", "e", "m", "i", "s", "t", "r", "y">>,
    <<"p", "h", "y", "s", "i", "c", "s">> }
CodingKeywords ==
  { <<"f", "u", "n", "c", "t", "i", "o", "n">>,
    <<"d", "e", "f">>,
    <<"c", "l", "a", "s", "s">>,
    <<"i", "m", "p", "o", "r", "t">>,
    <<"p", "r", "i", "n", "t">>,
    <<"c", "o", "d", "e">>,
    <<"p", "y", "t", "h", "o", "n">>,
    <<"j", "a", "v", "a", "s", "c", "r", "i", "p", "t">> }
ControlKeywords ==
  { <<"l", "o", "o", "p">>,
    <<"v", "a", "r", "i", "a", "b", "l", "e">>,
    <<"a", "r", "r", "a", "y">>,
    <<"i", "f">>,
    <<"e", "l", "s", "e">>,
    <<"r", "e", "t", "u", "r", "n">> }
GamingKeywords ==
  { <<"l", "e", "v", "e", "l">>,
    <<"s", "c", "o", "r", "e">>,
    <<"g", "a", "m", "e">>,
    <<"p", "l", "a", "y">>,
    <<"p", "l", "a", "y", "e", "r">>,
    <<"w", "i", "n">>,
    <<"l", "o", "s", "e">> }
CombatKeywords ==
  { <<"a", "t", "t", "a", "c", "k">>,
    <<"h", "e", "a", "l", "t", "h">>,
    <<"i", "n", "v", "e", "n", "t", "o", "r", "y">>,
    <<"m", "i", "s", "s", "i", "o", "n">> }

\* Cleaned OCR texts (cleanText) handed to the classifier.
PlainText ==
  <<"o", "p", "e", "n", " ", "t", "h", "e", " ", "d", "o", "o", "r", " ", "t", "o", " ", "a", " ", "g", "a", "r", "d", "e", "n", " ", "t", "o", "d", "a", "y">>
StudyText ==
  <<"r", "e", "a", "d", " ", "c", "h", "a", "p", "t", "e", "r", " ", "t", "w", "o", " ", "o", "f", " ", "p", "h", "y", "s", "i", "c", "s", " ", "b", "o", "o", "k">>
CodingText ==
  <<"d", "e", "f", " ", "m", "a", "i", "n", " ", "r", "e", "t", "u", "r", "n", " ", "v", "a", "l", "u", "e", " ", "p", "y", "t", "h", "o", "n">>
GiftText ==
  <<"a", " ", "g", "i", "f", "t", " ", "f", "o", "r", " ", "t", "h", "e", " ", "w", "i", "f", "e", " ", "o", "n", " ", "f", "r", "i", "d", "a", "y">>
GamingText ==
  <<"p", "l", "a", "y", "e", "r", " ", "h", "e", "a", "l", "t", "h", " ", "i", "s", " ", "l", "o", "w", " ", "a", "t", "t", "a", "c", "k", " ", "n", "o", "w">>
ShortText ==
  <<"l", "i", "f", "e", " ", "i", "s", " ", "g", "o", "o", "d">>
OcrTexts == {PlainText, StudyText, CodingText, GiftText, GamingText, ShortText}

CLASSES == <<"Studying", "Coding", "Gaming">>

\* RegExp.test for an alternation of literal keywords: some keyword occurs
\* anywhere in the text.
test(keywords, text) == \E k \in keywords : includes(text, k)

\* probs.indexOf(Math.max(...probs)): the first index of the largest value
\* (the three probabilities share the divisor total, so the scores order them).
indexOfMax(scores) ==
  Min({i \in 1..Len(scores) : \A j \in 1..Len(scores) : scores[j] <= scores[i]})

\* fallbackPredict: the rule-based classification; confidence is
\* score[maxIndex] / total, kept as the pair of both.
fallbackPredict(text) ==
  LET lower == toLowerCase(text)
      studyScore == (IF test(StudyKeywords, lower) THEN 3 ELSE 0)
                      + (IF test(SubjectKeywords, lower) THEN 2 ELSE 0)
      codingScore == (IF test(CodingKeywords, lower) THEN 3 ELSE 0)
                       + (IF test(ControlKeywords, lower) THEN 2 ELSE 0)
      gamingScore == (IF test(GamingKeywords, lower) THEN 3 ELSE 0)
                       + (IF test(CombatKeywords, lower) THEN 2 ELSE 0)
      sum == studyScore + codingScore + gamingScore
      total == IF sum = 0 THEN 1 ELSE sum
      scores == <<studyScore, codingScore, gamingScore>>
      maxIndex == indexOfMax(scores)
  IN  [class |-> CLASSES[maxIndex], score |-> scores[maxIndex], total |-> total]

\* fallbackPredict of every text, computed once.
FallbackResults == [t \in OcrTexts |-> fallbackPredict(t)]

\* predict: the rule-based fallback unless the model is loaded; with the model
\* the result is the class the network ranks first (modelClass), with a
\* positive probability.
predict(isLoaded, text, modelClass) ==
  IF ~isLoaded THEN FallbackResults[text]
  ELSE [class |-> modelClass, score |-> 1, total |-> 1]

\* ------------------------------------------- ScreenActivityDetector
Labels == {"Studying", "Coding", "Gaming", "Other"}
SetupPhases == {"worker", "video"}

ScreenInit(autoStart) ==
  [ mounted |-> TRUE,
    autoTimer |-> autoStart,             \* the 1000 ms timeout of the mount effect
    isSharing |-> FALSE,
    isInitializing |-> FALSE,
    error |-> FALSE,
    gamingDetectedCount |-> 0,
    streamRef |-> Null,
    ocrWorkerRef |-> FALSE,
    detectionIntervalRef |-> Null,
    streams |-> {},                      \* captured streams whose tracks are live
    intervals |-> {},                    \* active setInterval ids
    listening |-> {},                    \* streams with an 'ended' listener
    mediaRequests |-> 0,                 \* startScreenShare awaiting getDisplayMedia
    setups |-> [p \in SetupPhases |-> {}], \* startScreenShare awaiting its setup, by stream
    ocrTicks |-> 0,                      \* performOCRAndClassify awaiting OCR/classifier
    terminating |-> [stop \in BOOLEAN |-> 0], \* cleanup awaiting terminate(), by caller
    lastOutcome |-> "none",              \* how the last finished tick ended (activityResult, ocrStatus)
    confident |-> FALSE,                 \* activityResult.confidence > 0
    isLoaded |-> FALSE,                  \* textClassifier.isLoaded
    granted |-> FALSE ]                  \* getDisplayMedia has resolved at least once

ScreenIdle == [ScreenInit(FALSE) EXCEPT !.mounted = FALSE]

NewStreamId(sc) ==
  LET used == sc.streams \cup sc.setups["worker"] \cup sc.setups["video"]
                \cup {sc.streamRef, Null}
  IN  Min((1..(Cardinality(used) + 1)) \ used)

NewIntervalId(sc) ==
  LET used == sc.intervals \cup {sc.detectionIntervalRef, Null}
  IN  Min((1..(Cardinality(used) + 1)) \ used)

\* State of both modules as one value, for the handlers that touch both.
World(sc, b) == [screen |-> sc, beep |-> b]

\* The tail of stopScreenShare after cleanup.
afterStop(sc) ==
  [sc EXCEPT !.isSharing = FALSE, !.lastOutcome = "none",
             !.confident = FALSE, !.gamingDetectedCount = 0]

\* cleanup up to its await of terminate(); stop = called by stopScreenShare.
cleanup(w, stop) ==
  LET sc == w.screen
      t == [sc EXCEPT
              !.streams = IF sc.streamRef # Null THEN @ \ {sc.streamRef} ELSE @,
              !.listening = IF sc.streamRef # Null THEN @ \ {sc.streamRef} ELSE @,
              !.streamRef = Null,
              !.intervals = IF sc.detectionIntervalRef # Null
                              THEN @ \ {sc.detectionIntervalRef} ELSE @,
              !.detectionIntervalRef = Null]
  IN  World(IF t.ocrWorkerRef THEN [t EXCEPT !.terminating[stop] = @ + 1]
            ELSE IF stop THEN afterStop(t) ELSE t,
            stopGamingAlarm(w.beep))

\* performOCRAndClassify up to its first await.
performOCRAndClassify(sc) ==
  IF ~sc.ocrWorkerRef THEN sc ELSE [sc EXCEPT !.ocrTicks = @ + 1]

\* startDetectionLoop.
startDetectionLoop(sc) ==
  LET t == performOCRAndClassify(sc)
  IN  [t EXCEPT !.detectionIntervalRef = NewIntervalId(sc),
                !.intervals = @ \cup {NewIntervalId(sc)}]

\* classified with hysteresis: the alarm starts only at the second Gaming
\* tick in a row.
classifiedAfterTwo(w, label, ok) ==
  LET sc == [w.screen EXCEPT !.lastOutcome = label]
  IN  IF label = "Gaming"
        THEN World([sc EXCEPT !.gamingDetectedCount = @ + 1],
                   IF sc.gamingDetectedCount >= 1
                     THEN startGamingAlarm(w.beep, ok) ELSE w.beep)
      ELSE IF label \in {"Studying", "Coding"}
        THEN World([sc EXCEPT !.gamingDetectedCount = 0], stopGamingAlarm(w.beep))
      ELSE World(sc, w.beep)

\* classified with a final else branch that treats every other label as
\* productive: it zeroes the count and stops the alarm.
classifiedElseStops(w, label, ok) ==
  LET sc == [w.screen EXCEPT !.lastOutcome = label]
  IN  IF label = "Gaming"
        THEN World([sc EXCEPT !.gamingDetectedCount = @ + 1],
                   startGamingAlarm(w.beep, ok))
      ELSE World([sc EXCEPT !.gamingDetectedCount = 0], stopGamingAlarm(w.beep))

\* The gaming detection branch of performOCRAndClassify for a classified text.
classified(w, label, ok) ==
  LET sc == [w.screen EXCEPT !.lastOutcome = label]
  IN  IF label = "Gaming"
        THEN World([sc EXCEPT !.gamingDetectedCount = @ + 1],
                   startGamingAlarm(w.beep, ok))
      ELSE IF label \in {"Studying", "Coding"}
        THEN World([sc EXCEPT !.gamingDetectedCount = 0], stopGamingAlarm(w.beep))
      ELSE World(sc, w.beep)

SetWorld(w) == screen' = w.screen /\ beep' = w.beep

\* cleanup can be called without exceeding the explored number of pending
\* terminate() calls.
CleanupBounded ==
  screen.ocrWorkerRef =>
    screen.terminating[TRUE] + screen.terminating[FALSE] < MaxCleanups

\* startScreenShare up to its await of getDisplayMedia.
startScreenShare(sc) ==
  [sc EXCEPT !.error = FALSE, !.isInitializing = TRUE, !.mediaRequests = @ + 1]

StartsInFlight(sc) ==
  sc.mediaRequests + Cardinality(sc.setups["worker"]) + Cardinality(sc.setups["video"])

\* The timeout of the mount effect calls startScreenShare.
AutoStartFires ==
  /\ screen.autoTimer
  /\ screen' = startScreenShare([screen EXCEPT !.autoTimer = FALSE])
  /\ UNCHANGED <<beep, notScreen>>

\* The 'Share Screen & Start Detection' button.
ClickShare ==
  /\ screen.mounted /\ ~screen.isSharing /\ ~screen.isInitializing
  /\ StartsInFlight(screen) < MaxStarts
  /\ screen' = startScreenShare(screen)
  /\ UNCHANGED <<beep, notScreen>>

\* getDisplayMedia resolves with a stream of the given display surface.
MediaGranted ==
  /\ screen.mediaRequests > 0
  /\ Cardinality(screen.streams) < MaxStreams
  /\ \E surface \in {"monitor", "window", "unknown"} :
       LET t == [screen EXCEPT !.mediaRequests = @ - 1, !.granted = TRUE]
           id == NewStreamId(screen)
       IN  screen' = IF surface = "window"
                       THEN [t EXCEPT !.error = TRUE, !.isInitializing = FALSE]
                       ELSE [t EXCEPT !.streams = @ \cup {id},
                                      !.streamRef = id,
                                      !.setups["worker"] = @ \cup {id}]
  /\ UNCHANGED <<beep, notScreen>>

\* MediaDenied whose catch block reports and goes on to startDetectionLoop.
MediaDeniedStartsLoop ==
  /\ CleanupBounded
  /\ screen.mediaRequests > 0
  /\ LET w == cleanup(World([screen EXCEPT !.mediaRequests = @ - 1,
                                           !.error = TRUE,
                                           !.isSharing = FALSE,
                                           !.isInitializing = FALSE], beep), FALSE)
     IN  SetWorld(World(startDetectionLoop(w.screen), w.beep))
  /\ UNCHANGED notScreen

\* getDisplayMedia rejects: the catch block reports and cleans up.
MediaDenied ==
  /\ CleanupBounded
  /\ screen.mediaRequests > 0
  /\ SetWorld(cleanup(World([screen EXCEPT !.mediaRequests = @ - 1,
                                           !.error = TRUE,
                                           !.isSharing = FALSE,
                                           !.isInitializing = FALSE], beep), FALSE))
  /\ UNCHANGED notScreen

\* textClassifier.load (loaded: the model file was found) and createWorker
\* have resolved.
WorkerCreated ==
  /\ \E id \in screen.setups["worker"], loaded \in BOOLEAN :
       screen' = [screen EXCEPT !.setups["worker"] = @ \ {id},
                                !.setups["video"] = @ \cup {id},
                                !.isLoaded = @ \/ loaded,
                                !.ocrWorkerRef = TRUE]
  /\ UNCHANGED <<beep, notScreen>>

\* An await of the setup rejects: the catch block reports and cleans up.
SetupFails ==
  /\ CleanupBounded
  /\ \E p \in SetupPhases : \E id \in screen.setups[p] :
       SetWorld(cleanup(World([screen EXCEPT !.setups[p] = @ \ {id},
                                             !.error = TRUE,
                                             !.isSharing = FALSE,
                                             !.isInitializing = FALSE], beep), FALSE))
  /\ UNCHANGED notScreen

\* The video has loaded: sharing is on, the 'ended' listener is attached and
\* the detection loop starts.
VideoLoaded ==
  /\ Cardinality(screen.intervals) < MaxStreams
  /\ screen.ocrTicks < MaxInflight
  /\ \E id \in screen.setups["video"] :
       screen' = startDetectionLoop(
                   [screen EXCEPT !.setups["video"] = @ \ {id},
                                  !.isSharing = TRUE,
                                  !.isInitializing = FALSE,
                                  !.listening = IF id \in screen.streams
                                                  THEN @ \cup {id} ELSE @])
  /\ UNCHANGED <<beep, notScreen>>

\* The 10 s interval calls performOCRAndClassify.
IntervalFires ==
  /\ screen.intervals # {}
  /\ screen.ocrTicks < MaxInflight
  /\ screen' = performOCRAndClassify(screen)
  /\ UNCHANGED <<beep, notScreen>>

\* A tick resumes with a text of more than 20 characters, which predict
\* classifies.
TickClassified ==
  /\ screen.ocrTicks > 0
  /\ \E text \in OcrTexts, modelClass \in Labels, ok \in PlayBeepOutcomes(beep) :
       LET result == predict(screen.isLoaded, text, modelClass)
       IN  /\ Len(text) > MinTextLength
           /\ result.class = "Gaming" =>
                /\ screen.gamingDetectedCount < MaxGamingCount
                /\ isGamingAlarmActive(beep) \/ GamingLive(beep) < MaxCycles
           /\ SetWorld(classified(World([screen EXCEPT !.ocrTicks = @ - 1,
                                                       !.confident = result.score > 0],
                                        beep),
                                  result.class, ok))
  /\ UNCHANGED notScreen

\* A tick resumes with at most 20 characters of text: nothing is classified.
TickTooShort ==
  /\ screen.ocrTicks > 0
  /\ \E text \in OcrTexts : Len(text) <= MinTextLength
  /\ screen' = [screen EXCEPT !.ocrTicks = @ - 1, !.lastOutcome = "short"]
  /\ UNCHANGED <<beep, notScreen>>

\* recognize or predict throws: the catch block reports, the interval goes on.
TickThrows ==
  /\ screen.ocrTicks > 0
  /\ screen' = [screen EXCEPT !.ocrTicks = @ - 1, !.lastOutcome = "throw"]
  /\ UNCHANGED <<beep, notScreen>>

\* The 'Stop Sharing' button: stopScreenShare.
StopSharing ==
  /\ CleanupBounded
  /\ screen.mounted /\ screen.isSharing
  /\ SetWorld(cleanup(World(screen, beep), TRUE))
  /\ UNCHANGED notScreen

\* The user ends the capture in the browser: the 'ended' listener runs
\* stopScreenShare.
TrackEnded ==
  /\ CleanupBounded
  /\ \E id \in screen.listening :
       SetWorld(cleanup(World([screen EXCEPT !.streams = @ \ {id},
                                             !.listening = @ \ {id}], beep), TRUE))
  /\ UNCHANGED notScreen

\* The effect cleanup on unmount.
UnmountScreen ==
  /\ CleanupBounded
  /\ screen.mounted
  /\ SetWorld(cleanup(World([screen EXCEPT !.mounted = FALSE], beep), FALSE))
  /\ UNCHANGED notScreen

\* terminate() has resolved and cleanup (and its caller) resume.
TerminateDone ==
  /\ \E stop \in BOOLEAN :
       /\ screen.terminating[stop] > 0
       /\ LET t == [screen EXCEPT !.terminating[stop] = @ - 1,
                                  !.ocrWorkerRef = FALSE]
          IN  screen' = IF stop THEN afterStop(t) ELSE t
  /\ UNCHANGED <<beep, notScreen>>

\* ------------------------------- AIFocusAssistant.tsx, FocusMode/Chatbot.tsx
ChatComponents == {"AIFocusAssistant", "Chatbot"}

\* Texts the user sends.
BreakInput == <<"i", " ", "n", "e", "e", "d", " ", "a", " ", "b", "r", "e", "a", "k">>
HelloInput == <<"h", "e", "l", "l", "o">>
BlankInput == <<" ", " ", " ">>
ChatInputs == {BreakInput, HelloInput, BlankInput}

\* Transcripts the speech recognition delivers: a trigger phrase alone, and
\* followed by a query.
TriggerPhrase == <<"o", "k", " ", "z", "e", "n">>
TriggerThenQuery == <<"o", "k", " ", "z", "e", "n", " ", "b", "r", "e", "a", "k">>
Transcripts == {TriggerPhrase, TriggerThenQuery}

\* String.prototype.trim, for texts padded with spaces.
RECURSIVE trim(_)
trim(str) ==
  IF str = <<>> THEN str
  ELSE IF Head(str) = " " THEN trim(Tail(str))
  ELSE IF str[Len(str)] = " " THEN trim(SubSeq(str, 1, Len(str) - 1))
  ELSE str

\* The ways the completion service fails: the request is rejected, the
\* response is not OK, the body lacks the expected fields.
ServiceFailures == {"network", "status", "malformed"}
ServiceOutcomes == {"ok"} \cup ServiceFailures

\* Replies: the service's text and the canned replies of the components.
ServiceReply == "reply"
FallbackReplies ==
  [ break |-> "Taking a 5-minute break is a great idea!",
    focus |-> "Try the Pomodoro Technique",
    tired |-> "Feeling tired? Take a 15-minute walk or drink water.",
    motivat |-> "You're doing amazing!",
    other |-> "I'm here to support you!" ]

\* getFallbackResponse of AIFocusAssistant.
getFallbackResponse(message) ==
  LET input == toLowerCase(message)
  IN  IF includes(input, <<"b", "r", "e", "a", "k">>) THEN FallbackReplies.break
      ELSE IF includes(input, <<"f", "o", "c", "u", "s">>) \/ includes(input, <<"c", "o", "n", "c", "e", "n", "t", "r", "a", "t", "e">>)
        THEN FallbackReplies.focus
      ELSE IF includes(input, <<"t", "i", "r", "e", "d">>) \/ includes(input, <<"e", "x", "h", "a", "u", "s", "t", "e", "d">>)
        THEN FallbackReplies.tired
      ELSE IF includes(input, <<"m", "o", "t", "i", "v", "a", "t">>) THEN FallbackReplies.motivat
      ELSE FallbackReplies.other

\* generateResponse of AIFocusAssistant once the service has answered: every
\* failure is caught and answered by getFallbackResponse.
generateResponse(userInput, outcome) ==
  IF outcome = "ok" THEN ServiceReply ELSE getFallbackResponse(userInput)

ChatInit(component) ==
  [ component |-> component,
    messages |-> <<[sender |-> "assistant", text |-> "greeting"]>>,
    isLoading |-> FALSE,
    isListening |-> FALSE,
    requests |-> <<>>,                   \* requests awaiting the service: text, from voice
    toasts |-> 0,                        \* error toasts shown
    failures |-> 0 ]                     \* requests the service has failed

ChatIdle == ChatInit("Chatbot")

\* handleSendMessage / sendMessage up to the await of the service.
handleSendMessage(ch, messageText) ==
  IF trim(messageText) = <<>> \/ ch.isLoading THEN ch
  ELSE [ch EXCEPT !.messages = Append(@, [sender |-> "user", text |-> messageText]),
                  !.isLoading = TRUE,
                  !.requests = Append(@, [text |-> messageText, voice |-> FALSE])]

\* recognition.onresult: the callback was created by the mount effect, so the
\* handleSendMessage it calls is the one of the first render, whose isLoading
\* is false and whose inputValue is empty.
onresult(ch, transcript) ==
  LET t == [ch EXCEPT !.isListening = FALSE]
      sent == handleSendMessage([t EXCEPT !.isLoading = FALSE], transcript)
  IN  IF Len(sent.requests) = Len(t.requests) THEN t
      ELSE [sent EXCEPT !.requests[Len(sent.requests)].voice = TRUE]

\* The sequence without its i-th element.
RemoveAt(seq, i) == SubSeq(seq, 1, i - 1) \o SubSeq(seq, i + 1, Len(seq))

\* handleSendMessage / sendMessage after the await: the try, catch and
\* finally blocks for the i-th request in flight.
sendResolved(ch, i, outcome) ==
  LET messageText == ch.requests[i].text
      t == [ch EXCEPT !.requests = RemoveAt(@, i), !.isLoading = FALSE,
                      !.failures = IF outcome = "ok" THEN @ ELSE @ + 1]
  IN  IF ch.component = "AIFocusAssistant"
        THEN [t EXCEPT !.messages =
                Append(@, [sender |-> "assistant",
                           text |-> generateResponse(messageText, outcome)])]
      ELSE IF outcome = "ok"
        THEN [t EXCEPT !.messages =
                Append(@, [sender |-> "assistant", text |-> ServiceReply])]
      ELSE [t EXCEPT !.toasts = @ + 1]

\* The user sends a text (Send button or Enter).
ChatSend ==
  /\ Len(chat.messages) < MaxMessages
  /\ \E messageText \in ChatInputs : chat' = handleSendMessage(chat, messageText)
  /\ UNCHANGED notChat

\* toggleVoiceInput while not listening: the microphone button, disabled
\* while a request is loading, starts the recognition.
StartListening ==
  /\ chat.component = "AIFocusAssistant"
  /\ ~chat.isListening /\ ~chat.isLoading
  /\ chat' = [chat EXCEPT !.isListening = TRUE]
  /\ UNCHANGED notChat

\* The recognition delivers a transcript.
VoiceResult ==
  /\ chat.isListening
  /\ Len(chat.messages) < MaxMessages
  /\ \E transcript \in Transcripts : chat' = onresult(chat, transcript)
  /\ UNCHANGED notChat

\* The recognition ends without a result (onend, onerror, or the microphone
\* button pressed again).
VoiceEnds ==
  /\ chat.isListening
  /\ chat' = [chat EXCEPT !.isListening = FALSE]
  /\ UNCHANGED notChat

\* The completion service answers or fails.
ChatSettles ==
  /\ chat.requests # <<>>
  /\ \E i \in DOMAIN chat.requests, outcome \in ServiceOutcomes :
       chat' = sendResolved(chat, i, outcome)
  /\ UNCHANGED notChat

\* ------------------------------------------------ pages/TimeSelection.tsx
presetDurations == {15, 25, 45, 60, 90}

\* Texts of the custom duration input.
CustomTexts == {<<>>, <<"0">>, <<"-", "5">>, <<"3", "0">>}

\* Numbers as parseInt yields them: NaN or an integer.
NaN == [nan |-> TRUE, n |-> 0]
Num(n) == [nan |-> FALSE, n |-> n]

\* JavaScript truthiness of a number: NaN and 0 are falsy.
truthy(v) == ~v.nan /\ v.n # 0

Digits == <<"0", "1", "2", "3", "4", "5", "6", "7", "8", "9">>
isDigit(c) == \E d \in DOMAIN Digits : Digits[d] = c
digitValue(c) == (CHOOSE d \in DOMAIN Digits : Digits[d] = c) - 1

RECURSIVE leadingDigits(_, _)
leadingDigits(str, acc) ==
  IF str = <<>> \/ ~isDigit(Head(str)) THEN acc
  ELSE leadingDigits(Tail(str), acc * 10 + digitValue(Head(str)))

\* parseInt: an optional sign and the leading decimal digits; NaN without any.
parseInt(str) ==
  LET neg == str # <<>> /\ Head(str) = "-"
      body == IF neg THEN Tail(str) ELSE str
  IN  IF body = <<>> \/ ~isDigit(Head(body)) THEN NaN
      ELSE Num(IF neg THEN 0 - leadingDigits(body, 0) ELSE leadingDigits(body, 0))

\* Display surfaces a capture can have; "none" is an absent displaySurface.
Surfaces == {"monitor", "window", "browser"}
ShareErrors == {"NotAllowedError", "NotFoundError", "Error"}

SelInit ==
  [ selectedMinutes |-> Null,
    customMinutes |-> <<>>,
    showScreenDialog |-> FALSE,
    screenError |-> "",
    isRequestingScreen |-> FALSE,
    requests |-> 0,                      \* requestScreenShare awaiting getDisplayMedia
    liveTracks |-> 0,                    \* tracks of acquired streams not stopped
    shared |-> "none",                   \* surface the user shared in the last capture
    navigated |-> FALSE,                 \* navigate('/focus?...') was called
    target |-> NaN ]                     \* duration navigated with

\* selectedMinutes || parseInt(customMinutes)
chosenDuration(s) ==
  IF s.selectedMinutes # Null THEN Num(s.selectedMinutes) ELSE parseInt(s.customMinutes)

handleStart(s) ==
  LET duration == chosenDuration(s)
  IN  IF truthy(duration) /\ duration.n > 0
        THEN [s EXCEPT !.showScreenDialog = TRUE, !.screenError = ""]
        ELSE s

\* requestScreenShare up to its await of getDisplayMedia.
requestScreenShare(s) ==
  [s EXCEPT !.isRequestingScreen = TRUE, !.screenError = "", !.requests = @ + 1]

\* settings.displaySurface || videoTrack.getConstraints().displaySurface
displaySurfaceOf(settings, constraints) ==
  IF settings # "none" THEN settings ELSE constraints

\* stream.getTracks().forEach(track => track.stop())
stopTracks(s) == [s EXCEPT !.liveTracks = @ - 1]

\* requestScreenShare after getDisplayMedia has resolved with a stream.
shareGranted(s, settings, constraints) ==
  LET t == [s EXCEPT !.requests = @ - 1, !.liveTracks = @ + 1]
  IN  IF displaySurfaceOf(settings, constraints) # "monitor"
        THEN [stopTracks(t) EXCEPT !.screenError = "surface",
                                   !.isRequestingScreen = FALSE]
        ELSE [stopTracks(t) EXCEPT !.navigated = TRUE, !.target = chosenDuration(t)]

\* requestScreenShare after getDisplayMedia has rejected: the catch block.
shareRejected(s, name) ==
  [s EXCEPT !.requests = @ - 1, !.screenError = name, !.isRequestingScreen = FALSE]

\* A quick-select button.
SelectPreset ==
  /\ ~sel.navigated /\ ~sel.showScreenDialog
  /\ \E minutes \in presetDurations :
       sel' = [sel EXCEPT !.selectedMinutes = minutes, !.customMinutes = <<>>]
  /\ UNCHANGED notSel

\* The custom duration input changes.
TypeCustom ==
  /\ ~sel.navigated /\ ~sel.showScreenDialog
  /\ \E text \in CustomTexts :
       sel' = [sel EXCEPT !.customMinutes = text, !.selectedMinutes = Null]
  /\ UNCHANGED notSel

\* The 'Start Focus Session' button, enabled for a preset or a positive
\* custom duration.
ClickStart ==
  /\ ~sel.navigated /\ ~sel.showScreenDialog
  /\ \/ sel.selectedMinutes # Null
     \/ sel.customMinutes # <<>> /\ ~parseInt(sel.customMinutes).nan
                                /\ parseInt(sel.customMinutes).n > 0
  /\ sel' = handleStart(sel)
  /\ UNCHANGED notSel

\* The 'Share Entire Screen' button of the dialog.
ClickShareScreen ==
  /\ ~sel.navigated /\ sel.showScreenDialog /\ ~sel.isRequestingScreen
  /\ sel' = requestScreenShare(sel)
  /\ UNCHANGED notSel

\* The dialog is closed: Cancel or onOpenChange(false).
CancelDialog ==
  /\ ~sel.navigated /\ sel.showScreenDialog
  /\ sel' = [sel EXCEPT !.showScreenDialog = FALSE]
  /\ UNCHANGED notSel

\* getDisplayMedia resolves: the user shared a surface; the track's settings
\* report it or carry no displaySurface, and getConstraints returns the
\* requested "monitor" or no displaySurface.
ShareGranted ==
  /\ sel.requests > 0
  /\ \E actual \in Surfaces, reported \in BOOLEAN, echoed \in BOOLEAN :
       sel' = shareGranted([sel EXCEPT !.shared = actual],
                           IF reported THEN actual ELSE "none",
                           IF echoed THEN "monitor" ELSE "none")
  /\ UNCHANGED notSel

\* getDisplayMedia rejects.
ShareRejected ==
  /\ sel.requests > 0
  /\ \E name \in ShareErrors : sel' = shareRejected(sel, name)
  /\ UNCHANGED notSel

PageIdle == page = PageInit("pages", FALSE, 0)

CamIdle ==
  /\ variant = "opencv"
  /\ mounted = FALSE
  /\ camPc = "stopped"
  /\ distractedTimeRef = 0
  /\ focusedTimeRef = 0
  /\ alarmActive = FALSE
  /\ history = <<>>
  /\ startCalls = 0
  /\ stopCalls = 0
  /\ notifyCalls = 0
  /\ lastFrame = NoFrame

InitAlarm ==
  /\ beep = BeepInit
  /\ chat = ChatIdle
  /\ sel = SelInit
  /\ CamIdle /\ PageIdle /\ screen = ScreenIdle

NextAlarm ==
  \/ ApiStartContinuous
  \/ ApiStopContinuous
  \/ ApiStartGaming
  \/ ApiStopGaming
  \/ AlarmBeepEnds
  \/ AlarmTimerFires
  \/ GamingCycleResumes
  \/ GamingTimerFires

SpecAlarm == InitAlarm /\ [][NextAlarm]_vars

InitCamera ==
  /\ beep = BeepInit
  /\ chat = ChatIdle
  /\ sel = SelInit
  /\ variant \in Variants
  /\ mounted = TRUE
  /\ camPc = "loading"
  /\ distractedTimeRef = 0
  /\ focusedTimeRef = 0
  /\ alarmActive = FALSE
  /\ history = <<>>
  /\ startCalls = 0
  /\ stopCalls = 0
  /\ notifyCalls = 0
  /\ lastFrame = NoFrame
  /\ PageIdle
  /\ screen = ScreenIdle

NextCamera ==
  \/ StartDetection
  \/ LoadFails
  \/ DetectDecides
  \/ DetectSkips
  \/ DetectThrows
  \/ SleepEnds
  \/ FrameRuns
  \/ Unmount
  \/ AlarmBeepEnds
  \/ AlarmTimerFires

SpecCamera == InitCamera /\ [][NextCamera]_vars

\* The page after its first render and effect run.
InitTimer ==
  /\ beep = BeepInit
  /\ chat = ChatIdle
  /\ sel = SelInit
  /\ CamIdle
  /\ screen = ScreenIdle
  /\ \E file \in PageFiles, userId \in BOOLEAN, durationMinutes \in DurationChoices :
       /\ file = "embedded" => ~userId
       /\ page = timerEffect(PageInit(file, userId, durationMinutes))

NextTimer ==
  \/ TimerTick
  \/ TogglePause
  \/ ExitEarly
  \/ DismissDialog
  \/ SaveSettles
  \/ QuizTimerFires

SpecTimer == InitTimer /\ [][NextTimer]_vars

\* A ScreenActivityDetector right after its mount effect.
InitScreen ==
  /\ beep = BeepInit
  /\ chat = ChatIdle
  /\ sel = SelInit
  /\ CamIdle
  /\ PageIdle
  /\ \E autoStart \in BOOLEAN : screen = ScreenInit(autoStart)

NextScreen ==
  \/ AutoStartFires
  \/ ClickShare
  \/ MediaGranted
  \/ MediaDenied
  \/ WorkerCreated
  \/ SetupFails
  \/ VideoLoaded
  \/ IntervalFires
  \/ TickClassified
  \/ TickTooShort
  \/ TickThrows
  \/ StopSharing
  \/ TrackEnded
  \/ UnmountScreen
  \/ TerminateDone

\* The screen monitor only calls startGamingAlarm and stopGamingAlarm, whose
\* effect on the running flag does not depend on the tones and timers of the
\* cycle; these advance under SpecAlarm.
SpecScreen == InitScreen /\ [][NextScreen]_vars

\* A ScreenActivityDetector that shares the screen: startScreenShare has run
\* to its end and the first tick of the detection loop is in flight.
SharingScreen(isLoaded) ==
  [ScreenInit(FALSE) EXCEPT !.isSharing = TRUE, !.streamRef = 1,
                            !.streams = {1}, !.listening = {1},
                            !.ocrWorkerRef = TRUE, !.detectionIntervalRef = 1,
                            !.intervals = {1}, !.ocrTicks = 1,
                            !.isLoaded = isLoaded, !.granted = TRUE]

\* One monitor of the page at work (each panel of the page can be collapsed,
\* which unmounts its monitor): the camera monitor just mounted, or the
\* screen monitor sharing. Only the ticks are followed.
InitTicks ==
  /\ beep = BeepInit
  /\ chat = ChatIdle
  /\ sel = SelInit
  /\ PageIdle
  /\ \/ /\ variant \in Variants
        /\ mounted = TRUE
        /\ camPc = "loading"
        /\ distractedTimeRef = 0
        /\ focusedTimeRef = 0
        /\ alarmActive = FALSE
        /\ history = <<>>
        /\ startCalls = 0
        /\ stopCalls = 0
        /\ notifyCalls = 0
        /\ lastFrame = NoFrame
        /\ screen = ScreenIdle
     \/ /\ CamIdle
        /\ \E isLoaded \in BOOLEAN : screen = SharingScreen(isLoaded)

NextTicks ==
  \/ StartDetection
  \/ DetectFrame
  \/ DetectSkips
  \/ DetectThrows
  \/ SleepEnds
  \/ FrameRuns
  \/ IntervalFires
  \/ TickClassified
  \/ TickTooShort
  \/ TickThrows

SpecTicks == InitTicks /\ [][NextTicks]_vars

\* One monitor of the page right after its mount, asking for its device: the
\* camera monitor awaiting getUserMedia and its models, or the screen monitor
\* before its first startScreenShare.
InitAccess ==
  /\ beep = BeepInit
  /\ chat = ChatIdle
  /\ sel = SelInit
  /\ PageIdle
  /\ \/ /\ variant \in Variants
        /\ mounted = TRUE
        /\ camPc = "loading"
        /\ distractedTimeRef = 0
        /\ focusedTimeRef = 0
        /\ alarmActive = FALSE
        /\ history = <<>>
        /\ startCalls = 0
        /\ stopCalls = 0
        /\ notifyCalls = 0
        /\ lastFrame = NoFrame
        /\ screen = ScreenIdle
     \/ /\ CamIdle
        /\ \E autoStart \in BOOLEAN : screen = ScreenInit(autoStart)

NextAccess ==
  \/ StartDetection
  \/ LoadFails
  \/ DetectFrame
  \/ DetectSkips
  \/ DetectThrows
  \/ SleepEnds
  \/ FrameRuns
  \/ Unmount
  \/ AlarmBeepEnds
  \/ AlarmTimerFires
  \/ AutoStartFires
  \/ ClickShare
  \/ MediaGranted
  \/ MediaDenied
  \/ WorkerCreated
  \/ SetupFails
  \/ VideoLoaded
  \/ IntervalFires
  \/ TickClassified
  \/ TickTooShort
  \/ TickThrows
  \/ StopSharing
  \/ TrackEnded
  \/ UnmountScreen
  \/ TerminateDone

SpecAccess == InitAccess /\ [][NextAccess]_vars

\* The TimeSelection page, just rendered.
InitSelection ==
  /\ beep = BeepInit
  /\ chat = ChatIdle
  /\ CamIdle /\ PageIdle /\ screen = ScreenIdle
  /\ sel = SelInit

NextSelection ==
  \/ SelectPreset
  \/ TypeCustom
  \/ ClickStart
  \/ ClickShareScreen
  \/ CancelDialog
  \/ ShareGranted
  \/ ShareRejected

SpecSelection == InitSelection /\ [][NextSelection]_vars

\* The last seconds of a one-minute focus session on pages/FocusMode.tsx,
\* running, with one of its monitors at work: the camera monitor just
\* mounted (the panel was reopened), or the screen monitor sharing.
InitSession ==
  /\ beep = BeepInit
  /\ chat = ChatIdle
  /\ sel = SelInit
  /\ page = timerEffect([PageInit("pages", FALSE, 1)
                           EXCEPT !.timeRemaining = MaxSecondsLeft])
  /\ \/ /\ variant \in Variants
        /\ mounted = TRUE
        /\ camPc = "loading"
        /\ distractedTimeRef = 0
        /\ focusedTimeRef = 0
        /\ alarmActive = FALSE
        /\ history = <<>>
        /\ startCalls = 0
        /\ stopCalls = 0
        /\ notifyCalls = 0
        /\ lastFrame = NoFrame
        /\ screen = ScreenIdle
     \/ /\ CamIdle
        /\ \E isLoaded \in BOOLEAN : screen = SharingScreen(isLoaded)

NextSession ==
  \/ TimerTick
  \/ TogglePause
  \/ StartDetection
  \/ DetectFrame
  \/ SleepEnds
  \/ FrameRuns
  \/ AlarmBeepEnds
  \/ AlarmTimerFires
  \/ IntervalFires
  \/ TickClassified
  \/ GamingCycleResumes
  \/ GamingTimerFires

SpecSession == InitSession /\ [][NextSession]_vars

\* One chat component, mounted.
InitChat ==
  /\ beep = BeepInit
  /\ CamIdle /\ PageIdle /\ screen = ScreenIdle
  /\ \E component \in ChatComponents : chat = ChatInit(component)
  /\ sel = SelInit

NextChat ==
  \/ ChatSend
  \/ StartListening
  \/ VoiceResult
  \/ VoiceEnds
  \/ ChatSettles

SpecChat == InitChat /\ [][NextChat]_vars

\* ------------------------------------------------------------------ C4
\* C4: on each alarm channel at most one alarm cycle is live (one tone
\* sequence in flight or one continuation timer pending) in every state
\* reachable by interleaving start(), stop(), tone completion and timer firing.
AtMostOneLiveCycle == AlarmLive(beep) <= 1 /\ GamingLive(beep) <= 1

\* ------------------------------------------------------------------ C1
Ds(n) == [i \in 1..n |-> "D"]
Fs(n) == [i \in 1..n |-> "F"]
AllAre(h, a, b, l) == \A k \in a..b : h[k] = l

\* The most recent run of consecutive distracted ticks of h ends at LastD(h).
LastD(h) == IF \E i \in 1..Len(h) : h[i] = "D"
              THEN CHOOSE i \in 1..Len(h) : h[i] = "D" /\ AllAre(h, i + 1, Len(h), "F")
              ELSE 0
RunLengthAt(h, p) ==
  IF p = 0 THEN 0
  ELSE Cardinality({k \in 1..p : AllAre(h, k, p, "D")})
\* A run of at least RecoveryThreshold focused ticks lies after position p.
RecoveredAfter(h, p) ==
  \E j \in (p + 1)..(Len(h) - RecoveryThreshold + 1) :
     AllAre(h, j, j + RecoveryThreshold - 1, "F")

\* C1 as stated: the continuous alarm is running iff the most recent run of
\* consecutive distracted ticks has length >= 15 and no run of >= 2
\* consecutive focused ticks has occurred since that run.
AlarmIffLastRunLong ==
  mounted =>
    (isAlarmPlaying(beep) <=>
       /\ RunLengthAt(history, LastD(history)) >= DistractionThreshold
       /\ ~RecoveredAfter(history, LastD(history)))

\* C1 amended: while the monitor is mounted the continuous alarm is running
\* iff some run of consecutive distracted ticks has reached length 15 and no
\* run of >= 2 consecutive focused ticks has occurred since the last tick at
\* which a distracted run was that long (shorter distracted runs in between
\* do not clear the alarm).
AlarmIffLongRunUnrecovered ==
  mounted =>
    (isAlarmPlaying(beep) <=>
       \E p \in 1..Len(history) :
          /\ RunLengthAt(history, p) >= DistractionThreshold
          /\ ~RecoveredAfter(history, p))

AlarmHeldThroughShortRun ==
  /\ mounted
  /\ isAlarmPlaying(beep)
  /\ history = Ds(DistractionThreshold) \o <<"F", "D">>

\* ------------------------------------------------------------------ C2
\* C2: from a fresh mount, 14 distracted ticks leave the alarm off with no
\* start call; the 15th starts it with exactly one start call; one focused
\* tick leaves it running; the second focused tick stops it with one stop call.
FifteenTwoScenario ==
  mounted =>
    /\ history = Ds(DistractionThreshold - 1)
         => ~isAlarmPlaying(beep) /\ startCalls = 0
    /\ history = Ds(DistractionThreshold)
         => isAlarmPlaying(beep) /\ startCalls = 1 /\ stopCalls = 0
    /\ history = Ds(DistractionThreshold) \o Fs(RecoveryThreshold - 1)
         => isAlarmPlaying(beep) /\ startCalls = 1 /\ stopCalls = 0
    /\ history = Ds(DistractionThreshold) \o Fs(RecoveryThreshold)
         => ~isAlarmPlaying(beep) /\ startCalls = 1 /\ stopCalls = 1

ScenarioCompleted ==
  /\ mounted
  /\ history = Ds(DistractionThreshold) \o Fs(RecoveryThreshold)
  /\ stopCalls = 1

\* ------------------------------------------------------------------ C3
\* C3: after the camera monitor is torn down the continuous alarm is not
\* running, whatever was in flight when the cleanup ran.
NoAlarmAfterTeardown == ~mounted => ~isAlarmPlaying(beep)

\* ------------------------------------------------------------------ C6
\* C6: onDistractedTooLong is invoked exactly once when the distracted counter
\* reaches 15 with the alarm off, and on no tick that finds the counter
\* already at or above 15.
NotifiedOncePerCrossing ==
  [][ /\ (distractedTimeRef' = DistractionThreshold
            /\ distractedTimeRef = DistractionThreshold - 1
            /\ ~isAlarmPlaying(beep))
         => notifyCalls' = notifyCalls + 1
      /\ (distractedTimeRef >= DistractionThreshold
            /\ distractedTimeRef' >= DistractionThreshold)
         => notifyCalls' = notifyCalls ]_vars

\* ------------------------------------------------------------------ C8
\* C8: a failed classification tick does not end the polling: while the
\* camera monitor is mounted and detecting, a tick is in flight or the next
\* one is scheduled.
CameraKeepsPolling ==
  (mounted /\ camPc \notin {"loading", "error"})
    => camPc \in {"predicting", "sleeping", "frame"}

\* ------------------------------------------------------------------ C9
\* C9: in a session started with a positive duration the completion handler
\* handleSessionEnd(true) is invoked at most once.
CompletionSignalledOnce ==
  page.durationMinutes > 0 => page.endCalls[TRUE] <= 1

\* ------------------------------------------------------------------ C5
\* C5: after the screen monitor is torn down its polling interval is
\* cancelled, its captured stream is released and the gaming alarm is not
\* running, whatever start request or tick was in flight at that time.
ReleasedAfterTeardown ==
  ~screen.mounted =>
    /\ screen.intervals = {}
    /\ screen.streams = {}
    /\ ~isGamingAlarmActive(beep)

\* ------------------------------------------------------------------ C7
\* C7: a stopped channel is inactive with no timer token and starts no new
\* tone until the next start(): while the running flag stays false the
\* number of sounding tones of the channel never grows.
StoppedChannelStaysSilent ==
  /\ [](~beep.isAlarmRunning => beep.alarmIntervalId = Null)
  /\ [](~beep.isGamingAlarmRunning => beep.gamingAlarmIntervalId = Null)
  /\ [][ /\ ((~beep.isAlarmRunning /\ ~beep'.isAlarmRunning)
               => AlarmTones(beep') <= AlarmTones(beep))
         /\ ((~beep.isGamingAlarmRunning /\ ~beep'.isGamingAlarmRunning)
               => GamingTones(beep') <= GamingTones(beep)) ]_vars

\* ------------------------------------------------------------------ C10
\* C10: a screen tick that yields no decision (a label outside Studying,
\* Coding, Gaming, or too little text) changes neither running flag nor
\* gamingDetectedCount nor the camera counters.
UnknownTickChangesNothing ==
  [][ (screen'.ocrTicks = screen.ocrTicks - 1
         /\ screen'.lastOutcome \in {"Other", "short"})
      => /\ beep'.isGamingAlarmRunning = beep.isGamingAlarmRunning
         /\ beep'.isAlarmRunning = beep.isAlarmRunning
         /\ screen'.gamingDetectedCount = screen.gamingDetectedCount
         /\ UNCHANGED <<distractedTimeRef, focusedTimeRef>> ]_vars

UnknownTickDuringAlarm ==
  /\ screen.lastOutcome = "Other"
  /\ isGamingAlarmActive(beep)
  /\ screen.gamingDetectedCount = 1

\* ------------------------------------------------------------------ C11
\* C11: with the rule-based fallback classifier (model not loaded), a tick
\* whose text matches no keyword, so that all three scores are zero and the
\* reported confidence is 0, neither starts nor stops the gaming alarm.
NoEvidenceKeepsAlarm ==
  [][ (/\ screen'.ocrTicks = screen.ocrTicks - 1
       /\ ~screen.isLoaded
       /\ screen'.lastOutcome \in {CLASSES[i] : i \in 1..Len(CLASSES)}
       /\ ~screen'.confident)
      => beep'.isGamingAlarmRunning = beep.isGamingAlarmRunning ]_vars

\* ------------------------------------------------------------------ C12
\* C12: a tick whose posture class is Focused and whose eye signal is
\* unavailable (no face found) counts as focused: it never increments the
\* distracted counter.
SecondaryAbsenceNeverDistracts ==
  [][ (/\ camPc = "predicting" /\ camPc' = "sleeping"
       /\ isTmFocused(lastFrame'.className)
       /\ lastFrame'.faces = 0)
      => distractedTimeRef' <= distractedTimeRef ]_vars

\* ------------------------------------------------------------------ C13
\* C13: a tick that fails before it has a label (the camera's detect ends in
\* its catch block, the screen monitor's tick ends in its catch block) leaves
\* both counters, both running flags and gamingDetectedCount unchanged.
FailedTickChangesNothing ==
  [][ (\/ camPc = "predicting" /\ camPc' = "stopped"
       \/ /\ screen'.ocrTicks = screen.ocrTicks - 1
          /\ screen'.lastOutcome = "throw")
      => /\ UNCHANGED <<distractedTimeRef, focusedTimeRef, alarmActive>>
         /\ beep'.isAlarmRunning = beep.isAlarmRunning
         /\ beep'.isGamingAlarmRunning = beep.isGamingAlarmRunning
         /\ screen'.gamingDetectedCount = screen.gamingDetectedCount ]_vars

FailedTickDuringAlarm ==
  /\ mounted /\ camPc = "stopped"
  /\ isAlarmPlaying(beep)
  /\ distractedTimeRef >= DistractionThreshold

\* ------------------------------------------------------------------ C14
\* C14: in every reachable state of the camera monitor at most one of the
\* consecutive-distracted and consecutive-focused counters is nonzero.
OneCounterNonzero == distractedTimeRef = 0 \/ focusedTimeRef = 0

CounterSwitched ==
  /\ history = Ds(DistractionThreshold) \o <<"F">>
  /\ distractedTimeRef = 0
  /\ focusedTimeRef = 1

\* ------------------------------------------------------------------ C15
\* C15: start() on a channel whose running flag is true changes no alarm
\* state and begins no cycle, and start();start() leaves the same state as
\* start(), on both channels and whatever the tone emitter answers.
StartIsIdempotent ==
  \A ok1 \in PlayBeepOutcomes(beep), ok2 \in BOOLEAN :
    /\ isAlarmPlaying(beep) => startContinuousAlarm(beep, ok2) = beep
    /\ isGamingAlarmActive(beep) => startGamingAlarm(beep, ok2) = beep
    /\ startContinuousAlarm(startContinuousAlarm(beep, ok1), ok2)
         = startContinuousAlarm(beep, ok1)
    /\ startGamingAlarm(startGamingAlarm(beep, ok1), ok2)
         = startGamingAlarm(beep, ok1)

BothChannelsCycling ==
  /\ isAlarmPlaying(beep) /\ AlarmTones(beep) > 0
  /\ isGamingAlarmActive(beep) /\ beep.gamingAlarmIntervalId # Null

\* ------------------------------------------------------------------ C16
\* C16: stop() leaves a channel with the running flag false and the timer
\* token null; on a channel that is not running it changes nothing, and
\* stop();stop() leaves the same state as stop(), on both channels.
StopIsIdempotent ==
  /\ ~stopContinuousAlarm(beep).isAlarmRunning
  /\ stopContinuousAlarm(beep).alarmIntervalId = Null
  /\ ~stopGamingAlarm(beep).isGamingAlarmRunning
  /\ stopGamingAlarm(beep).gamingAlarmIntervalId = Null
  /\ ~isAlarmPlaying(beep) => stopContinuousAlarm(beep) = beep
  /\ ~isGamingAlarmActive(beep) => stopGamingAlarm(beep) = beep
  /\ stopContinuousAlarm(stopContinuousAlarm(beep)) = stopContinuousAlarm(beep)
  /\ stopGamingAlarm(stopGamingAlarm(beep)) = stopGamingAlarm(beep)

BothChannelsStoppedMidTone ==
  /\ ~isAlarmPlaying(beep) /\ AlarmTones(beep) > 0
  /\ ~isGamingAlarmActive(beep) /\ GamingTones(beep) > 0

\* ------------------------------------------------------------------ C17
\* C17: while the session is paused no tick is applied (the interval is
\* cleared) and timeRemaining keeps its value; pausing and resuming do not
\* change it, and after a resume the countdown runs again from that value.
PauseFreezesCountdown ==
  /\ [](page.isPaused => ~page.interval)
  /\ [][ /\ ((page.isPaused \/ page'.isPaused)
               => page'.timeRemaining = page.timeRemaining)
         /\ ((page.isPaused /\ ~page'.isPaused
                /\ page'.timeRemaining > 0 /\ ~page'.showQuiz)
               => page'.interval) ]_vars

PausedMidCountdown ==
  /\ page.isPaused
  /\ page.timeRemaining > 0
  /\ page.timeRemaining < page.durationMinutes * SecondsPerMinute

\* ------------------------------------------------------------------ C18
\* C18: when the completion service fails, the chat component appends one
\* assistant message (a fallback reply) to the conversation and is ready for
\* the next message, in AIFocusAssistant as well as in Chatbot.
FailureAnsweredByFallback ==
  [][ chat'.failures = chat.failures + 1
      => /\ Len(chat'.messages) = Len(chat.messages) + 1
         /\ chat'.messages[Len(chat'.messages)].sender = "assistant"
         /\ ~chat'.isLoading ]_vars

\* ------------------------------------------------------------------ C19
\* C19: a page without a user id writes no focus-session record; a page with
\* a user id never has more than one record written for its session, and a
\* record with completed = true exists only once the timer is at zero, however
\* the early exit, the timer reaching zero and the pause toggles interleave
\* with the pending write.
SessionRecordedOnce ==
  LET written == page.records[TRUE] + page.records[FALSE]
  IN  /\ ~page.userId => written = 0
      /\ page.userId =>
           /\ written <= 1
           /\ page.records[TRUE] > 0 => page.timeRemaining <= 0

\* ------------------------------------------------------------------ C20
\* C20: a step of the continuous alarm (start, stop, a tone ending, its timer
\* firing) leaves the gaming channel's running flag and timer token as they
\* were, and a step of the gaming alarm (start, stop, a burst resuming, its
\* timer firing) leaves the continuous channel's running flag and timer token
\* as they were.
ChannelsIndependent ==
  [][ /\ (ApiStartContinuous \/ ApiStopContinuous \/ AlarmBeepEnds \/ AlarmTimerFires)
           => /\ beep'.isGamingAlarmRunning = beep.isGamingAlarmRunning
              /\ beep'.gamingAlarmIntervalId = beep.gamingAlarmIntervalId
      /\ (ApiStartGaming \/ ApiStopGaming \/ GamingCycleResumes \/ GamingTimerFires)
           => /\ beep'.isAlarmRunning = beep.isAlarmRunning
              /\ beep'.alarmIntervalId = beep.alarmIntervalId ]_vars

\* The gaming alarm has been stopped in the middle of a burst while the
\* continuous alarm runs and holds the token of its pending timer.
GamingStoppedBesideContinuous ==
  /\ ~beep.isGamingAlarmRunning
  /\ GamingLive(beep) > 0
  /\ beep.isAlarmRunning
  /\ beep.alarmIntervalId # Null
  /\ beep.alarmIntervalId \in beep.alarmTimers

\* ------------------------------------------------------------------ C21
\* C21: a camera monitor whose access was refused stays in its error status
\* with no frame decided, no counter moved and no alarm started; a screen
\* monitor that has never been granted a capture has no polling interval, no
\* tick in flight or finished and no gaming alarm; and the step in which a
\* screen request is refused sets the error, leaves the monitor not sharing
\* and not initializing, and creates no interval, no tick and no alarm.
RefusalStartsNothing ==
  /\ [](/\ camPc = "error" =>
             /\ lastFrame = NoFrame
             /\ distractedTimeRef = 0 /\ focusedTimeRef = 0
             /\ startCalls = 0 /\ notifyCalls = 0
             /\ ~alarmActive /\ ~isAlarmPlaying(beep) /\ AlarmLive(beep) = 0
        /\ ~screen.granted =>
             /\ screen.intervals = {} /\ screen.ocrTicks = 0
             /\ screen.lastOutcome = "none" /\ ~screen.isSharing
             /\ ~isGamingAlarmActive(beep) /\ GamingLive(beep) = 0)
  /\ [][ /\ camPc = "error" => camPc' = "error"
         /\ MediaDenied =>
              /\ screen'.error /\ ~screen'.isSharing /\ ~screen'.isInitializing
              /\ screen'.intervals \subseteq screen.intervals
              /\ screen'.ocrTicks = screen.ocrTicks
              /\ ~isGamingAlarmActive(beep') ]_vars

\* The only screen request made so far has been refused.
ScreenRefused ==
  /\ screen.mounted /\ screen.error /\ ~screen.granted
  /\ screen.mediaRequests = 0 /\ ~screen.autoTimer

\* ------------------------------------------------------------------ C22
\* C22: no request forwarded from a voice transcript carries the trigger
\* phrase: a transcript that is the trigger phrase alone calls no completion
\* service, and of a transcript with a query only the text after the trigger
\* phrase is forwarded.
OnlyQueryForwarded ==
  \A i \in DOMAIN chat.requests :
    chat.requests[i].voice =>
      ~includes(toLowerCase(chat.requests[i].text), TriggerPhrase)

\* ------------------------------------------------------------------ C23
\* C23: the screen monitor has no hysteresis: a tick labelled Gaming leaves
\* the gaming alarm running, a tick labelled Studying or Coding leaves it
\* stopped with gamingDetectedCount at 0, and a tick with any other label
\* leaves the running flag as it was; so after a tick the alarm runs if and
\* only if the last tick labelled Gaming, Studying or Coding said Gaming.
NoHysteresis ==
  [][ TickClassified =>
        /\ screen'.lastOutcome = "Gaming" => isGamingAlarmActive(beep')
        /\ screen'.lastOutcome \in {"Studying", "Coding"} =>
             /\ ~isGamingAlarmActive(beep')
             /\ screen'.gamingDetectedCount = 0
        /\ screen'.lastOutcome \notin {"Gaming", "Studying", "Coding"} =>
             isGamingAlarmActive(beep') = isGamingAlarmActive(beep) ]_vars

\* One Studying tick has stopped the alarm that a Gaming tick had started.
StudyingTickSilencedAlarm ==
  /\ screen.isSharing
  /\ screen.lastOutcome = "Studying"
  /\ ~isGamingAlarmActive(beep)
  /\ GamingLive(beep) > 0

\* ------------------------------------------------------------------ C24
\* C24: whenever the running flag of an alarm channel is true, a cycle of
\* that channel is live: one of its tones is in flight or its continuation
\* timer is pending.
RunningMeansLive ==
  /\ isAlarmPlaying(beep) => AlarmLive(beep) > 0
  /\ isGamingAlarmActive(beep) => GamingLive(beep) > 0

\* ------------------------------------------------------------------ C25
\* C25: a camera tick whose top class is any label other than the focused
\* class is a distracted tick: it increments distractedTimeRef and zeroes
\* focusedTimeRef, so it never counts toward the recovery.
NonFocusedClassDistracts ==
  [][ DetectFrame /\ lastFrame'.className # Focused
        => /\ distractedTimeRef' = distractedTimeRef + 1
           /\ focusedTimeRef' = 0 ]_vars

\* ------------------------------------------------------------------ C26
\* C26: a chat component has at most one completion request in flight, and
\* isLoading is true exactly while one is: a send attempted during a request,
\* typed or delivered by the speech recognition, adds no request and no
\* message, and isLoading is false again once the request has settled.
OneRequestInFlight ==
  /\ Len(chat.requests) <= 1
  /\ chat.isLoading <=> chat.requests # <<>>

\* ------------------------------------------------------------------ C27
\* C27: a screen monitor never has more than one polling interval active nor
\* more than one captured stream live, whatever start requests (auto-start,
\* manual) and stops occur; and a stop (Stop Sharing, the capture ended by
\* the user, the unmount cleanup) leaves no interval active and no stream
\* live.
OneCaptureOneInterval ==
  /\ [](/\ Cardinality(screen.intervals) <= 1
        /\ Cardinality(screen.streams) <= 1)
  /\ [][ StopSharing \/ TrackEnded \/ UnmountScreen
           => screen'.intervals = {} /\ screen'.streams = {} ]_vars

\* ------------------------------------------------------------------ C28
\* C28: timeRemaining always lies between 0 and the initial duration, for
\* every duration the page is opened with; a tick of the running timer
\* takes exactly 1 from it until it is 0, no step increases it, and at 0 it
\* stays.
RemainingWithinDuration ==
  /\ [](/\ 0 <= page.timeRemaining
        /\ page.timeRemaining <= page.durationMinutes * SecondsPerMinute)
  /\ [][ /\ page'.timeRemaining <= page.timeRemaining
         /\ TimerTick => page'.timeRemaining =
                           IF page.timeRemaining > 0 THEN page.timeRemaining - 1 ELSE 0
         /\ page.timeRemaining = 0 => page'.timeRemaining = 0 ]_vars

\* ------------------------------------------------------------------ C29
\* C29: TimeSelection has navigated to focus mode only if the surface the
\* user shared is the entire screen ("monitor"); after every outcome of
\* requestScreenShare no track of an acquired stream is left running; and
\* every outcome that does not navigate leaves an error message set and
\* isRequestingScreen false.
NavigatesOnlyWithMonitor ==
  /\ [](/\ sel.navigated => sel.shared = "monitor"
        /\ sel.liveTracks = 0)
  /\ [][ sel'.requests < sel.requests /\ ~sel'.navigated
           => sel'.screenError # "" /\ ~sel'.isRequestingScreen ]_vars

\* ------------------------------------------------------------------ C30
\* C30: a step that pauses or resumes the session timer leaves the camera
\* monitor's counters and both alarm channels as they were, and a step of a
\* monitor or of an alarm (a camera tick, a screen tick, a tone ending, an
\* alarm timer firing) leaves timeRemaining and isPaused as they were.
TimerAndMonitorsApart ==
  [][ /\ page'.isPaused # page.isPaused
           => /\ distractedTimeRef' = distractedTimeRef
              /\ focusedTimeRef' = focusedTimeRef
              /\ alarmActive' = alarmActive
              /\ beep' = beep
      /\ (beep' # beep \/ camVars' # camVars \/ screen' # screen)
           => /\ page'.timeRemaining = page.timeRemaining
              /\ page'.isPaused = page.isPaused ]_vars

\* The session is paused in mid-countdown while the camera alarm rings.
PausedWhileAlarmRings ==
  /\ page.isPaused
  /\ 0 < page.timeRemaining
  /\ page.timeRemaining < page.durationMinutes * SecondsPerMinute
  /\ isAlarmPlaying(beep)
  /\ distractedTimeRef >= DistractionThreshold

====
